---- MODULE Spec2Model ----
(***************************************************************************)
(* Bitbucket MCP server: the method dispatcher (src/src/mcp.ts) and the    *)
(* Bitbucket API client (src/src/bitbucket.ts).                            *)
(*                                                                         *)
(* mcp.ts holds three createMCPServer variants.  A deployment is one of    *)
(*   "yaml"       McpServer.tool handlers, YAML rendering, thirteen tools, *)
(*                credentials given once to createMCPServer (lines 9-383)  *)
(*   "json"       McpServer.tool handlers, JSON rendering, eleven tools,   *)
(*                credentials given once (lines 393-707)                   *)
(*   "perRequest" Server.setRequestHandler handlers, raw result, eleven    *)
(*                methods, credentials inside every request (718-1064)     *)
(***************************************************************************)
EXTENDS Integers, Sequences, FiniteSets, TLC

VARIABLES deployment, envAuth, dispatches, pullRequests, tally

vars == <<deployment, envAuth, dispatches, pullRequests, tally>>

(***************************************************************************)
(* JavaScript / JSON values.  A value is a one-field record whose field    *)
(* name is its type: s string, n number, b boolean, o object (a function   *)
(* from keys to values), a array (a sequence of values), u undefined.      *)
(***************************************************************************)
S(x) == [s |-> x]
N(x) == [n |-> x]
B(x) == [b |-> x]
O(f) == [o |-> f]
A(q) == [a |-> q]
Undefined == [u |-> "undefined"]
Is(val, tag) == tag \in DOMAIN val
Get(f, key) == IF key \in DOMAIN f THEN f[key] ELSE Undefined
Without(f, keys) == [key \in DOMAIN f \ keys |-> f[key]]
Range(q) == {q[i] : i \in DOMAIN q}

(***************************************************************************)
(* JSON.stringify: the text of a value, as the set of its leaves           *)
(* <<path, scalar>>; a key whose value is undefined is left out, and an    *)
(* empty object or array is a leaf of its own.  Text that is not JSON is   *)
(* [raw |-> ...].                                                          *)
(***************************************************************************)
RECURSIVE Leaves(_, _)
Leaves(val, path) ==
  CASE Is(val, "o") ->
         LET keys == {key \in DOMAIN val.o : val.o[key] # Undefined}
         IN  IF keys = {} THEN {<<path, [e |-> "{}"]>>}
             ELSE UNION {Leaves(val.o[key], Append(path, key)) : key \in keys}
    [] Is(val, "a") ->
         IF val.a = <<>> THEN {<<path, [e |-> "[]"]>>}
         ELSE UNION {Leaves(val.a[i], Append(path, ToString(i - 1))) : i \in DOMAIN val.a}
    [] OTHER -> {<<path, val>>}

JSON_stringify(val) == [json |-> Leaves(val, <<>>)]

(***************************************************************************)
(* zod schemas, as the source writes them.                                 *)
(***************************************************************************)
zString == [k |-> "string"]
zNumber == [k |-> "number"]
zBoolean == [k |-> "boolean"]
zEnum(vals) == [k |-> "enum", values |-> vals]
zLiteral(v) == [k |-> "literal", value |-> v]
zObject(shape) == [k |-> "object", shape |-> shape]
zArray(el) == [k |-> "array", element |-> el]
zOptional(inner) == [k |-> "optional", inner |-> inner]

\* The keys of an input object that enter the parsed output: z.object keeps
\* the keys of its shape and drops every other key without an issue.
StripUnknownKeys(shape, input) == DOMAIN shape \cap DOMAIN input

(* A variant of the object parser that passes unknown keys through. *)
KeepUnknownKeys(shape, input) == DOMAIN input

OutputKeys(shape, input) == StripUnknownKeys(shape, input)

\* Whether a key of the shape that the input lacks raises an issue.
MissingKeyIsIssue(fieldSchema) == fieldSchema.k # "optional"

\* safeParse, the issues: the paths that violate the schema.
RECURSIVE Issues(_, _, _)
Issues(schema, input, path) ==
  CASE schema.k = "optional" ->
         IF input = Undefined THEN {} ELSE Issues(schema.inner, input, path)
    [] schema.k = "string" -> IF Is(input, "s") THEN {} ELSE {path}
    [] schema.k = "number" -> IF Is(input, "n") THEN {} ELSE {path}
    [] schema.k = "boolean" -> IF Is(input, "b") THEN {} ELSE {path}
    [] schema.k = "enum" ->
         IF Is(input, "s") /\ input.s \in schema.values THEN {} ELSE {path}
    [] schema.k = "literal" ->
         IF Is(input, "s") /\ input.s = schema.value THEN {} ELSE {path}
    [] schema.k = "object" ->
         IF ~Is(input, "o") THEN {path}
         ELSE UNION {
                IF key \in DOMAIN input.o
                THEN Issues(schema.shape[key], input.o[key], Append(path, key))
                ELSE IF MissingKeyIsIssue(schema.shape[key])
                     THEN {Append(path, key)} ELSE {}
                : key \in DOMAIN schema.shape}
    [] schema.k = "array" ->
         IF ~Is(input, "a") THEN {path}
         ELSE UNION {Issues(schema.element, input.a[i], Append(path, ToString(i - 1)))
                     : i \in DOMAIN input.a}

\* safeParse, the data handed to the handler when there is no issue.
RECURSIVE Output(_, _)
Output(schema, input) ==
  CASE schema.k = "optional" ->
         IF input = Undefined THEN Undefined ELSE Output(schema.inner, input)
    [] schema.k = "object" /\ Is(input, "o") ->
         LET keys == OutputKeys(schema.shape, input.o)
         IN  O([key \in keys |->
                  IF key \in DOMAIN schema.shape
                  THEN Output(schema.shape[key], input.o[key])
                  ELSE input.o[key]])
    [] schema.k = "array" /\ Is(input, "a") ->
         A([i \in DOMAIN input.a |-> Output(schema.element, input.a[i])])
    [] OTHER -> input

(***************************************************************************)
(* JavaScript built-ins the client uses.                                   *)
(***************************************************************************)
\* if (x): undefined, "" and 0 are falsy.
Truthy(val) ==
  CASE Is(val, "u") -> FALSE
    [] Is(val, "s") -> val.s # ""
    [] Is(val, "n") -> val.n # 0
    [] Is(val, "b") -> val.b
    [] OTHER -> TRUE

\* A value inside a template literal, and its toString().
ToText(val) ==
  CASE Is(val, "s") -> val.s
    [] Is(val, "n") -> ToString(val.n)
    [] Is(val, "b") -> IF val.b THEN "true" ELSE "false"
    [] Is(val, "u") -> "undefined"
    [] Is(val, "a") -> ""
    [] OTHER -> "[object Object]"

\* value.key: undefined when the object has no such key.
Prop(val, key) == IF Is(val, "o") THEN Get(val.o, key) ELSE Undefined

\* charCodeAt(0) of the characters credentials are written in: the ASCII
\* punctuation from code 33 to 47 without the quotation mark, then the
\* characters from code 48 (digit 0) to code 90 (Z), then the lower-case letters.
AsciiFrom33 == "!"
AsciiFrom35 == "#$%&'()*+,-./"
AsciiFrom48 == "0123456789:;<=>?@ABCDEFGHIJKLMNOPQRSTUVWXYZ"
AsciiFrom97 == "abcdefghijklmnopqrstuvwxyz"

CharAt(str, i) == SubSeq(str, i, i)
IndexOf(str, c) == CHOOSE i \in 1..Len(str) : CharAt(str, i) = c
Occurs(str, c) == \E i \in 1..Len(str) : CharAt(str, i) = c

CharCode(c) ==
  CASE Occurs(AsciiFrom48, c) -> 47 + IndexOf(AsciiFrom48, c)
    [] Occurs(AsciiFrom97, c) -> 96 + IndexOf(AsciiFrom97, c)
    [] Occurs(AsciiFrom35, c) -> 34 + IndexOf(AsciiFrom35, c)
    [] Occurs(AsciiFrom33, c) -> 32 + IndexOf(AsciiFrom33, c)
    [] c = "_" -> 95

Base64Alphabet ==
  "ABCDEFGHIJKLMNOPQRSTUVWXYZabcdefghijklmnopqrstuvwxyz0123456789+/"

Base64Char(i) == CharAt(Base64Alphabet, i + 1)

\* btoa: three bytes become four characters; the last group is padded with =.
RECURSIVE btoa(_)
btoa(str) ==
  IF Len(str) = 0 THEN ""
  ELSE LET b1 == CharCode(CharAt(str, 1))
           b2 == IF Len(str) >= 2 THEN CharCode(CharAt(str, 2)) ELSE 0
           b3 == IF Len(str) >= 3 THEN CharCode(CharAt(str, 3)) ELSE 0
           c1 == Base64Char(b1 \div 4)
           c2 == Base64Char((b1 % 4) * 16 + b2 \div 16)
           c3 == Base64Char((b2 % 16) * 4 + b3 \div 64)
           c4 == Base64Char(b3 % 64)
       IN  IF Len(str) = 1 THEN c1 \o c2 \o "=="
           ELSE IF Len(str) = 2 THEN c1 \o c2 \o c3 \o "="
           ELSE c1 \o c2 \o c3 \o c4 \o btoa(SubSeq(str, 4, Len(str)))

\* new URLSearchParams(), append(key, value) and toString(): the pairs in
\* the order appended, key=value joined by &.
RECURSIVE URLSearchParams_toString(_)
URLSearchParams_toString(params) ==
  IF params = <<>> THEN ""
  ELSE params[1][1] \o "=" \o params[1][2]
       \o (IF Len(params) > 1 THEN "&" ELSE "")
       \o URLSearchParams_toString(Tail(params))

\* if (options.key) params.append(name, options.key.toString())
AppendIfTruthy(params, name, val) ==
  IF Truthy(val) THEN Append(params, <<name, ToText(val)>>) ELSE params

(* A variant that appends the key whenever the options object has it. *)
AppendAlways(params, name, val) ==
  Append(params, <<name, IF val = Undefined THEN "" ELSE ToText(val)>>)

(* A variant that appends every value that is not undefined, 0 and the
   empty string included. *)
AppendIfDefined(params, name, val) ==
  IF val # Undefined THEN Append(params, <<name, ToText(val)>>) ELSE params

appendParam(params, name, val) == AppendIfTruthy(params, name, val)

\* queryString: "?" and params.toString() when that is not empty, else "".
queryString(params) ==
  IF URLSearchParams_toString(params) # ""
  THEN "?" \o URLSearchParams_toString(params) ELSE ""

(***************************************************************************)
(* BitbucketClient (src/src/bitbucket.ts).  auth is the constructor's      *)
(* argument: an object {username, password} or undefined.                  *)
(***************************************************************************)
BITBUCKET_API_BASE_URL == "https://api.bitbucket.org/2.0"

BasicCredentials(auth) ==
  ("Authorization" :> "Basic " \o btoa(ToText(Prop(auth, "username")) \o ":"
                                       \o ToText(Prop(auth, "password"))))

(* Variants of getAuthHeader: no header at all; secret and identity swapped. *)
NoAuthHeader(auth) == <<>>

SwappedCredentials(auth) ==
  ("Authorization" :> "Basic " \o btoa(ToText(Prop(auth, "password")) \o ":"
                                       \o ToText(Prop(auth, "username"))))

getAuthHeader(auth) ==
  IF auth = Undefined THEN <<>> ELSE BasicCredentials(auth)

(* A variant of request that sets no Content-Type header. *)
requestWithoutContentType(auth, endpoint, options) ==
  [url |-> BITBUCKET_API_BASE_URL \o endpoint,
   init |-> ("headers" :> getAuthHeader(auth)) @@ options]

\* request(endpoint, options), up to its await fetch(url, init): the call
\* handed to fetch.  init is {...options, headers: requestHeaders}.
request(auth, endpoint, options) ==
  [url |-> BITBUCKET_API_BASE_URL \o endpoint,
   init |-> ("headers" :> (getAuthHeader(auth) @@ ("Content-Type" :> "application/json")))
            @@ options]

\* fetch sends GET when init names no method, and no body when init has none.
HttpVerb(call) == IF "method" \in DOMAIN call.init THEN call.init.method ELSE "GET"
HasBody(call) == "body" \in DOMAIN call.init

NoOptions == <<>>

getRepositories(auth, options) ==
  LET p1 == appendParam(<<>>, "role", Get(options, "role"))
      p2 == appendParam(p1, "page", Get(options, "page"))
      p3 == appendParam(p2, "pagelen", Get(options, "pagelen"))
  IN  request(auth, "/repositories" \o queryString(p3), NoOptions)

getRepository(auth, workspace, repoSlug) ==
  request(auth, "/repositories/" \o ToText(workspace) \o "/" \o ToText(repoSlug), NoOptions)

getPipelines(auth, workspace, repoSlug, options) ==
  LET p1 == appendParam(<<>>, "sort", Get(options, "sort"))
      p2 == appendParam(p1, "page", Get(options, "page"))
      p3 == appendParam(p2, "pagelen", Get(options, "pagelen"))
  IN  request(auth, "/repositories/" \o ToText(workspace) \o "/" \o ToText(repoSlug)
                    \o "/pipelines" \o queryString(p3), NoOptions)

getPipeline(auth, workspace, repoSlug, pipelineUuid) ==
  request(auth, "/repositories/" \o ToText(workspace) \o "/" \o ToText(repoSlug)
                \o "/pipelines/" \o ToText(pipelineUuid), NoOptions)

getPipelineSteps(auth, workspace, repoSlug, pipelineUuid) ==
  request(auth, "/repositories/" \o ToText(workspace) \o "/" \o ToText(repoSlug)
                \o "/pipelines/" \o ToText(pipelineUuid) \o "/steps", NoOptions)

getPullRequests(auth, workspace, repoSlug, options) ==
  LET p1 == appendParam(<<>>, "state", Get(options, "state"))
      p2 == appendParam(p1, "sort", Get(options, "sort"))
      p3 == appendParam(p2, "page", Get(options, "page"))
      p4 == appendParam(p3, "pagelen", Get(options, "pagelen"))
  IN  request(auth, "/repositories/" \o ToText(workspace) \o "/" \o ToText(repoSlug)
                    \o "/pullrequests" \o queryString(p4), NoOptions)

getPullRequest(auth, workspace, repoSlug, pullRequestId) ==
  request(auth, "/repositories/" \o ToText(workspace) \o "/" \o ToText(repoSlug)
                \o "/pullrequests/" \o ToText(pullRequestId), NoOptions)

(* A variant of createPullRequest that writes the destination branch in
   the place of the source branch. *)
createFromDestination(auth, workspace, repoSlug, params) ==
  request(auth, "/repositories/" \o ToText(workspace) \o "/" \o ToText(repoSlug)
                \o "/pullrequests",
          [method |-> "POST",
           body |-> JSON_stringify(O([params.o EXCEPT !["source"] = params.o["destination"]]))])

createPullRequest(auth, workspace, repoSlug, params) ==
  request(auth, "/repositories/" \o ToText(workspace) \o "/" \o ToText(repoSlug)
                \o "/pullrequests",
          [method |-> "POST", body |-> JSON_stringify(params)])

(* A variant of updatePullRequest that repeats the pull request's id in the
   body. *)
updateWithId(auth, workspace, repoSlug, pullRequestId, params) ==
  request(auth, "/repositories/" \o ToText(workspace) \o "/" \o ToText(repoSlug)
                \o "/pullrequests/" \o ToText(pullRequestId),
          [method |-> "PUT",
           body |-> JSON_stringify(O(("id" :> pullRequestId) @@ params.o))])

updatePullRequest(auth, workspace, repoSlug, pullRequestId, params) ==
  request(auth, "/repositories/" \o ToText(workspace) \o "/" \o ToText(repoSlug)
                \o "/pullrequests/" \o ToText(pullRequestId),
          [method |-> "PUT", body |-> JSON_stringify(params)])

mergePullRequest(auth, workspace, repoSlug, pullRequestId, params) ==
  request(auth, "/repositories/" \o ToText(workspace) \o "/" \o ToText(repoSlug)
                \o "/pullrequests/" \o ToText(pullRequestId) \o "/merge",
          [method |-> "POST", body |-> JSON_stringify(params)])

(* A variant of declinePullRequest that posts an empty JSON body. *)
declineWithBody(auth, workspace, repoSlug, pullRequestId) ==
  request(auth, "/repositories/" \o ToText(workspace) \o "/" \o ToText(repoSlug)
                \o "/pullrequests/" \o ToText(pullRequestId) \o "/decline",
          [method |-> "POST", body |-> JSON_stringify(O(<<>>))])

declinePullRequest(auth, workspace, repoSlug, pullRequestId) ==
  request(auth, "/repositories/" \o ToText(workspace) \o "/" \o ToText(repoSlug)
                \o "/pullrequests/" \o ToText(pullRequestId) \o "/decline",
          [method |-> "POST"])

(***************************************************************************)
(* The input schemas of createMCPServer (src/src/mcp.ts).                  *)
(***************************************************************************)
Roles == {"owner", "admin", "contributor", "member"}
(* A variant of the states' enumeration that lists one state more. *)
StatesWithDraft == {"OPEN", "MERGED", "DECLINED", "SUPERSEDED", "DRAFT"}
PullRequestStates == {"OPEN", "MERGED", "DECLINED", "SUPERSEDED"}
MergeStrategies == {"merge_commit", "squash", "fast_forward"}
Permissions == {"read", "write", "admin"}

authSchema == zObject([username |-> zString, password |-> zString])

branchSchema ==
  zObject([branch |-> zObject([name |-> zString]),
           repository |-> zOptional(zObject([full_name |-> zString]))])

reviewersSchema == zArray(zObject([uuid |-> zString]))

\* params of the server.tool registrations (the "yaml" and "json" variants).
toolParams(op) ==
  CASE op = "getRepositories" ->
         [workspace |-> zOptional(zString), role |-> zOptional(zEnum(Roles)),
          page |-> zOptional(zNumber), pagelen |-> zOptional(zNumber)]
    [] op = "getRepository" -> [workspace |-> zString, repoSlug |-> zString]
    [] op = "getPipelines" ->
         [workspace |-> zString, repoSlug |-> zString, sort |-> zOptional(zString),
          page |-> zOptional(zNumber), pagelen |-> zOptional(zNumber)]
    [] op = "getPipeline" ->
         [workspace |-> zString, repoSlug |-> zString, pipelineUuid |-> zString]
    [] op = "getPipelineSteps" ->
         [workspace |-> zString, repoSlug |-> zString, pipelineUuid |-> zString]
    [] op = "getPullRequests" ->
         [workspace |-> zString, repoSlug |-> zString,
          state |-> zOptional(zEnum(PullRequestStates)), sort |-> zOptional(zString),
          page |-> zOptional(zNumber), pagelen |-> zOptional(zNumber)]
    [] op = "getPullRequest" ->
         [workspace |-> zString, repoSlug |-> zString, pullRequestId |-> zNumber]
    [] op = "createPullRequest" ->
         [workspace |-> zString, repoSlug |-> zString, title |-> zString,
          source |-> branchSchema, destination |-> branchSchema,
          description |-> zOptional(zString),
          close_source_branch |-> zOptional(zBoolean),
          reviewers |-> zOptional(reviewersSchema)]
    [] op = "updatePullRequest" ->
         [workspace |-> zString, repoSlug |-> zString, pullRequestId |-> zNumber,
          title |-> zOptional(zString), description |-> zOptional(zString),
          reviewers |-> zOptional(reviewersSchema),
          close_source_branch |-> zOptional(zBoolean)]
    [] op = "mergePullRequest" ->
         [workspace |-> zString, repoSlug |-> zString, pullRequestId |-> zNumber,
          merge_strategy |-> zOptional(zEnum(MergeStrategies)),
          message |-> zOptional(zString),
          close_source_branch |-> zOptional(zBoolean)]
    [] op = "declinePullRequest" ->
         [workspace |-> zString, repoSlug |-> zString, pullRequestId |-> zNumber]
    [] op = "grantRepositoryAccess" ->
         [workspace |-> zString, repoSlug |-> zString, userAccount |-> zString,
          permission |-> zEnum(Permissions)]
    [] op = "getWorkspaceMembers" ->
         [workspace |-> zString, q |-> zOptional(zString),
          page |-> zOptional(zNumber), pagelen |-> zOptional(zNumber)]

\* params of the server.setRequestHandler registrations (the "perRequest"
\* variant): auth, and the same fields, but no workspace for getRepositories.
handlerParams(op) ==
  [auth |-> authSchema]
  @@ (IF op = "getRepositories"
      THEN [role |-> zOptional(zEnum(Roles)),
            page |-> zOptional(zNumber), pagelen |-> zOptional(zNumber)]
      ELSE toolParams(op))

Deployments == {"yaml", "json", "perRequest"}

ClientOperations ==
  {"getRepositories", "getRepository", "getPipelines", "getPipeline",
   "getPipelineSteps", "getPullRequests", "getPullRequest", "createPullRequest",
   "updatePullRequest", "mergePullRequest", "declinePullRequest"}

\* The registrations of each variant, in the order of its server.tool or
\* server.setRequestHandler calls.
Registrations(dep) ==
  <<"getRepositories", "getRepository", "getPipelines", "getPipeline",
    "getPipelineSteps", "getPullRequests", "getPullRequest", "createPullRequest",
    "updatePullRequest", "mergePullRequest", "declinePullRequest">>
  \o (IF dep = "yaml" THEN <<"grantRepositoryAccess", "getWorkspaceMembers">> ELSE <<>>)

\* The operations each variant registers a handler for.
RegisteredOperations(dep) == Range(Registrations(dep))

\* The method literal of an operation's schema.
MethodLiteral(op) == "bitbucket/" \o op

\* The name a handler is registered (and looked up) under: the tool name of
\* server.tool, the method literal of server.setRequestHandler.
RegisteredName(dep, op) == IF dep = "perRequest" THEN MethodLiteral(op) ELSE op

RegisteredNames(dep) == {RegisteredName(dep, op) : op \in RegisteredOperations(dep)}

\* capabilities.tools.methods
AdvertisedMethods(dep) == {MethodLiteral(op) : op \in RegisteredOperations(dep)}

paramsShape(dep, op) == IF dep = "perRequest" THEN handlerParams(op) ELSE toolParams(op)

inputSchema(dep, op) ==
  zObject([method |-> zLiteral(MethodLiteral(op)), params |-> zObject(paramsShape(dep, op))])

\* The handlers registered under a name: one, or none.
RegisteredHandlers(dep, name) ==
  {op \in RegisteredOperations(dep) : RegisteredName(dep, op) = name}

(* A variant of the lookup that falls back to a handler for an unknown name. *)
FallbackHandlers(dep, name) ==
  IF RegisteredHandlers(dep, name) = {} THEN {"getRepositories"}
  ELSE RegisteredHandlers(dep, name)

Handlers(dep, name) == RegisteredHandlers(dep, name)

(***************************************************************************)
(* The handlers of createMCPServer: from the parsed request to the client  *)
(* call.  A handler's first step either hands a call to fetch or throws.   *)
(***************************************************************************)
Calls(call) == [call |-> call]
Throws(name, message) == [threw |-> [name |-> name, message |-> message]]

\* The client a handler uses: the one createMCPServer built from its auth
\* argument, or new BitbucketClient(request.params.auth).
(* A variant that keeps one client for all requests and lets each request
   overwrite its credentials: a dispatch then runs with the credentials of
   a dispatch still in flight. *)
sharedClientAuth(dep, env, params) ==
  IF dep = "perRequest" /\ (\E e \in DOMAIN dispatches : dispatches[e].pc = "fetching")
  THEN LET e == CHOOSE e \in DOMAIN dispatches : dispatches[e].pc = "fetching"
       IN  Prop(Prop(dispatches[e].args, "params"), "auth")
  ELSE IF dep = "perRequest" THEN Get(params, "auth") ELSE env

clientAuth(dep, env, params) ==
  IF dep = "perRequest" THEN Get(params, "auth") ELSE env

\* The options object handed to client.getRepositories.
getRepositoriesOptions(dep, params) ==
  IF dep = "perRequest"
  THEN [role |-> Get(params, "role"), page |-> Get(params, "page"),
        pagelen |-> Get(params, "pagelen")]
  ELSE [workspace |-> Get(params, "workspace"), role |-> Get(params, "role"),
        page |-> Get(params, "page"), pagelen |-> Get(params, "pagelen")]

\* const { workspace, repoSlug, [pullRequestId,] [auth,] ...rest } = request.params
(* A variant of the destructuring that leaves auth among the rest. *)
restParamsWithAuth(dep, params, taken) == O(Without(params, taken))

restParams(dep, params, taken) ==
  O(Without(params, taken \cup (IF dep = "perRequest" THEN {"auth"} ELSE {})))

handler(dep, env, op, params) ==
  LET auth == clientAuth(dep, env, params)
      ws == Get(params, "workspace")
      slug == Get(params, "repoSlug")
      id == Get(params, "pullRequestId")
      uuid == Get(params, "pipelineUuid")
  IN
  CASE op = "getRepositories" ->
         Calls(getRepositories(auth, getRepositoriesOptions(dep, params)))
    [] op = "getRepository" -> Calls(getRepository(auth, ws, slug))
    [] op = "getPipelines" ->
         Calls(getPipelines(auth, ws, slug,
                 [sort |-> Get(params, "sort"), page |-> Get(params, "page"),
                  pagelen |-> Get(params, "pagelen")]))
    [] op = "getPipeline" -> Calls(getPipeline(auth, ws, slug, uuid))
    [] op = "getPipelineSteps" -> Calls(getPipelineSteps(auth, ws, slug, uuid))
    [] op = "getPullRequests" ->
         Calls(getPullRequests(auth, ws, slug,
                 [state |-> Get(params, "state"), sort |-> Get(params, "sort"),
                  page |-> Get(params, "page"), pagelen |-> Get(params, "pagelen")]))
    [] op = "getPullRequest" -> Calls(getPullRequest(auth, ws, slug, id))
    [] op = "createPullRequest" ->
         Calls(createPullRequest(auth, ws, slug,
                 restParams(dep, params, {"workspace", "repoSlug"})))
    [] op = "updatePullRequest" ->
         Calls(updatePullRequest(auth, ws, slug, id,
                 restParams(dep, params, {"workspace", "repoSlug", "pullRequestId"})))
    [] op = "mergePullRequest" ->
         Calls(mergePullRequest(auth, ws, slug, id,
                 restParams(dep, params, {"workspace", "repoSlug", "pullRequestId"})))
    [] op = "declinePullRequest" -> Calls(declinePullRequest(auth, ws, slug, id))
    \* BitbucketClient has no grantRepositoryAccess and no getWorkspaceMembers.
    [] op = "grantRepositoryAccess" ->
         Throws("TypeError", <<"client.grantRepositoryAccess is not a function">>)
    [] op = "getWorkspaceMembers" ->
         Throws("TypeError", <<"client.getWorkspaceMembers is not a function">>)

(***************************************************************************)
(* The remote: the documents it answers with, and its responses.           *)
(***************************************************************************)
MaxItems == 2

Repository(i) ==
  O([uuid |-> S("r-" \o ToString(i)), name |-> S("widgets" \o ToString(i)),
     full_name |-> S("acme/widgets" \o ToString(i)),
     description |-> S("Widget factory"), is_private |-> B(TRUE),
     links |-> O([html |-> O([href |-> S("https://bitbucket.org/acme/widgets" \o ToString(i))])])])

Pipeline(i) ==
  O([uuid |-> S("p-" \o ToString(i)), build_number |-> N(i),
     state |-> O([name |-> S("COMPLETED"), type |-> S("pipeline_state_completed")])])

PipelineStep(i) ==
  O([uuid |-> S("s-" \o ToString(i)), name |-> S("build"),
     state |-> O([name |-> S("COMPLETED"), type |-> S("pipeline_step_state_completed")]),
     duration_in_seconds |-> N(i)])

PullRequest(i, state) ==
  O([id |-> N(i), title |-> S("Add gears"), description |-> S("More gears"),
     state |-> S(state),
     source |-> O([branch |-> O([name |-> S("feature")])]),
     destination |-> O([branch |-> O([name |-> S("main")])]),
     close_source_branch |-> B(FALSE)])

\* PaginatedResponse<T>
Page(items) ==
  O([values |-> A(items), pagelen |-> N(10), size |-> N(Len(items)), page |-> N(1)])

OpenPullRequest(i) == PullRequest(i, "OPEN")

Item(type, i) ==
  CASE type = "Repository" -> Repository(i)
    [] type = "Pipeline" -> Pipeline(i)
    [] type = "PipelineStep" -> PipelineStep(i)
    [] type = "PullRequest" -> OpenPullRequest(i)

Pages(type) == {Page([i \in 1..n |-> Item(type, i)]) : n \in 0..MaxItems}

\* What the remote answers an operation with on success.
ResultsFor(op) ==
  CASE op = "getRepositories" -> Pages("Repository")
    [] op = "getRepository" -> {Repository(1)}
    [] op = "getPipelines" -> Pages("Pipeline")
    [] op = "getPipeline" -> {Pipeline(1)}
    [] op = "getPipelineSteps" -> Pages("PipelineStep")
    [] op = "getPullRequests" -> Pages("PullRequest")
    [] op = "getPullRequest" -> {PullRequest(42, "OPEN")}
    [] op = "createPullRequest" -> {PullRequest(43, "OPEN")}
    [] op = "updatePullRequest" -> {PullRequest(42, "OPEN")}
    [] op = "mergePullRequest" -> {PullRequest(42, "MERGED")}
    [] op = "declinePullRequest" -> {PullRequest(42, "DECLINED")}
    [] OTHER -> {}

ErrorBodies ==
  {O([type |-> S("error"), error |-> O([message |-> S("Resource not found")])])}

\* The pull requests callers submit for creation (CreatePullRequestParams),
\* and what the remote makes of one: the pull request it stores under a new
\* id, open, with the title and the branches submitted.
MaxStored == 2

Branch(name) == O([branch |-> O([name |-> S(name)])])

SubmittedPullRequests ==
  {O([title |-> S(title), source |-> Branch(source), destination |-> Branch("main")]) :
     title \in {"Add gears", "Fix sprockets"}, source \in {"feature", "main"}}

StoredPullRequest(id, submitted) ==
  O([id |-> N(id), state |-> S("OPEN")] @@ submitted.o)

CreatedDocuments ==
  {StoredPullRequest(id, submitted) :
     id \in 1..MaxStored, submitted \in SubmittedPullRequests}

RemoteDocuments ==
  UNION {ResultsFor(op) : op \in ClientOperations} \cup ErrorBodies
  \cup SubmittedPullRequests \cup CreatedDocuments

Response(status, statusText, body) ==
  [status |-> status, statusText |-> statusText, body |-> body]

ResponsesFor(op) ==
  {Response(IF op = "createPullRequest" THEN 201 ELSE 200,
            IF op = "createPullRequest" THEN "Created" ELSE "OK",
            JSON_stringify(r)) : r \in ResultsFor(op)}
  \cup {Response(200, "OK", [raw |-> ""])}
  \cup {Response(404, "Not Found", JSON_stringify(e)) : e \in ErrorBodies}
  \cup {Response(502, "Bad Gateway", [raw |-> "<html>Bad Gateway</html>"])}

\* response.ok: the status is in the range 200-299.
ok(response) == response.status \in 200..299

\* response.json(): the value whose JSON text the body is; it rejects when
\* the body is not JSON text.
DocumentTexts == {[doc |-> doc, text |-> JSON_stringify(doc)] : doc \in RemoteDocuments}
Decodable(text) == \E entry \in DocumentTexts : entry.text = text
JSON_parse(text) == (CHOOSE entry \in DocumentTexts : entry.text = text).doc

\* The remote keeps to the page length it is asked for: a page it answers a
\* request ending in pagelen=n with holds at most n values.  Without a
\* pagelen in the request it answers with pages of its own default length.
EndsWith(str, suffix) ==
  /\ Len(suffix) <= Len(str)
  /\ SubSeq(str, Len(str) - Len(suffix) + 1, Len(str)) = suffix

ValuesIn(response) ==
  IF Decodable(response.body) /\ Is(Prop(JSON_parse(response.body), "values"), "a")
  THEN Len(JSON_parse(response.body).o.values.a)
  ELSE 0

RemoteResponses(op, call) ==
  {response \in ResponsesFor(op) :
     \A n \in 1..MaxItems :
       EndsWith(call.url, "pagelen=" \o ToString(n)) => ValuesIn(response) <= n}

(***************************************************************************)
(* request() after its await fetch, and the handler after its await.       *)
(***************************************************************************)
\* const errorData = await response.json().catch(() => ({ message: 'Unknown error' }))
errorData(response) ==
  IF Decodable(response.body) THEN JSON_parse(response.body)
  ELSE O([message |-> S("Unknown error")])

\* The message of the Error request() throws on a response that is not ok:
\* one text, the status, the status text and the JSON text of errorData in it.
ApiErrorMessage(response) ==
  <<"Bitbucket API error: " \o ToString(response.status) \o " "
      \o response.statusText \o ", ",
    JSON_stringify(errorData(response))>>

(* A variant of the message that leaves the status out. *)
ApiErrorMessageNoStatus(response) ==
  <<"Bitbucket API error: " \o response.statusText \o ", ",
    JSON_stringify(errorData(response))>>

errorMessage(response) == ApiErrorMessage(response)

Returns(val) == [value |-> val]

(* A variant of request() without the .catch on the decoding of an error
   body: the rejection of response.json() is what it throws. *)
requestOutcomeWithoutCatch(response) ==
  IF ~Decodable(response.body)
  THEN Throws("SyntaxError", <<"Unexpected token < in JSON at position 0">>)
  ELSE IF ~ok(response) THEN Throws("Error", errorMessage(response))
  ELSE Returns(JSON_parse(response.body))

requestOutcome(response) ==
  IF ~ok(response) THEN Throws("Error", errorMessage(response))
  ELSE IF Decodable(response.body) THEN Returns(JSON_parse(response.body))
  ELSE Throws("SyntaxError", <<"Unexpected end of JSON input">>)

yamlStringify(val) == [yaml |-> Leaves(val, <<>>)]

\* result.values.map((repo) => ({ name, full_name, description, href }))
repositorySummary(repo) ==
  O([name |-> Get(repo.o, "name"), full_name |-> Get(repo.o, "full_name"),
     description |-> Get(repo.o, "description"),
     href |-> repo.o.links.o.html.o.href])

\* What the handler returns for the client's result.
render(dep, op, result) ==
  IF dep = "perRequest" THEN [result |-> result]
  ELSE LET output == IF op = "getRepositories"
                     THEN A([i \in DOMAIN result.o.values.a |->
                               repositorySummary(result.o.values.a[i])])
                     ELSE result
       IN  [content |-> <<[type |-> "text",
                           text |-> IF dep = "yaml" THEN yamlStringify(output)
                                    ELSE JSON_stringify(output)]>>]

(***************************************************************************)
(* Envelopes: what a dispatch answers its caller with.                     *)
(***************************************************************************)
Success(returned) == [ok |-> TRUE, returned |-> returned]
Failure(error) == [ok |-> FALSE, error |-> error]
UnknownMethod(name) == Failure([kind |-> "UnknownMethod", method |-> name])
InvalidParams(issues) == Failure([kind |-> "InvalidParams", issues |-> issues])
Thrown(err) == Failure([kind |-> err.name, message |-> err.message])

(***************************************************************************)
(* The callers' requests: for every operation the payloads that satisfy    *)
(* its schema (each optional field absent, falsy or set), and payloads     *)
(* with one required field missing, one field of the wrong type, or one    *)
(* field the schema does not declare.                                      *)
(***************************************************************************)
MaxReviewers == 1
MaxInFlight == 2

Slots == 1..MaxInFlight

EnvCredentials ==
  {O([username |-> S("alice"), password |-> S("s3cret")]),
   O([username |-> S("carol"), password |-> S("p.ss")])}

RequestCredentials ==
  {O([username |-> S("alice"), password |-> S("s3cret")]),
   O([username |-> S("bob"), password |-> S("hunter2")])}

SampleValues(key) ==
  CASE key = "auth" -> RequestCredentials
    [] key = "workspace" -> {S("acme")}
    [] key = "repoSlug" -> {S("widgets")}
    [] key = "pipelineUuid" -> {S("p-1")}
    [] key = "pullRequestId" -> {N(42)}
    [] key = "role" -> {S("owner")}
    [] key = "state" -> {S(state) : state \in PullRequestStates}
    [] key = "sort" -> {S("-created_on"), S("")}
    [] key = "page" -> {N(2), N(0)}
    [] key = "pagelen" -> {N(10), N(1), N(0)}
    [] key = "title" -> {S("Add gears")}
    [] key = "description" -> {S("More gears")}
    [] key = "close_source_branch" -> {B(TRUE), B(FALSE)}
    [] key = "reviewers" ->
         {A([i \in 1..n |-> O([uuid |-> S("u-" \o ToString(i))])]) : n \in 0..MaxReviewers}
    [] key = "source" ->
         {O([branch |-> O([name |-> S("feature")])]),
          O([branch |-> O([name |-> S("feature")]),
             repository |-> O([full_name |-> S("fork/widgets")])])}
    [] key = "destination" -> {O([branch |-> O([name |-> S("main")])])}
    [] key = "merge_strategy" -> {S(strategy) : strategy \in MergeStrategies}
    [] key = "message" -> {S("Merged by the bot")}
    [] key = "userAccount" -> {S("carol")}
    [] key = "permission" -> {S("write")}
    [] key = "q" -> {S("carol")}

FirstSample(key) ==
  CHOOSE v \in SampleValues(key) : Truthy(v) /\ (Is(v, "a") => v.a # <<>>)

RequiredKeys(shape) == {key \in DOMAIN shape : shape[key].k # "optional"}

\* Every object over the keys, each key absent (when optional) or one of its samples.
RECURSIVE ObjectsOver(_, _)
ObjectsOver(shape, keys) ==
  IF keys = {} THEN {<<>>}
  ELSE LET key == CHOOSE key \in keys : TRUE
       IN  {IF v = Undefined THEN f ELSE (key :> v) @@ f :
              f \in ObjectsOver(shape, keys \ {key}),
              v \in SampleValues(key)
                    \cup (IF shape[key].k = "optional" THEN {Undefined} ELSE {})}

ValidParams(shape) == ObjectsOver(shape, DOMAIN shape)

MinimalParams(shape) == [key \in RequiredKeys(shape) |-> FirstSample(key)]
FullParams(shape) == [key \in DOMAIN shape |-> FirstSample(key)]

\* A value of another type than the schema's, or outside its enum.
RECURSIVE WrongValues(_)
WrongValues(schema) ==
  CASE schema.k = "optional" -> WrongValues(schema.inner)
    [] schema.k = "string" -> {N(7)}
    [] schema.k = "number" -> {S("7")}
    [] schema.k = "boolean" -> {S("true")}
    [] schema.k = "enum" -> {S("BOGUS")}
    [] schema.k = "literal" -> {S("bitbucket/other")}
    [] schema.k = "object" -> {S("x")}
    [] schema.k = "array" -> {S("x")}

\* An object or array that lacks a required field further down.
NestedDefects(key) ==
  CASE key = "source" -> {O([branch |-> O(<<>>)])}
    [] key = "destination" -> {O(<<>>)}
    [] key = "auth" -> {O([username |-> S("alice")])}
    [] key = "reviewers" -> {A(<<O(<<>>)>>)}
    [] OTHER -> {}

MissingOne(shape, base) == {Without(base, {key}) : key \in RequiredKeys(shape)}

WrongOne(shape, base) ==
  UNION {{(key :> v) @@ base : v \in WrongValues(shape[key]) \cup NestedDefects(key)} :
           key \in DOMAIN shape}

\* Fields no schema of the variant declares for the operation: an unknown
\* key; the workspace of getRepositories and an auth object where the
\* variant's schema has none.
UndeclaredFields(dep, op) ==
  {("unexpected" :> S("surprise"))}
  \cup (IF dep = "perRequest" /\ op = "getRepositories"
        THEN {("workspace" :> S("acme"))} ELSE {})
  \cup (IF dep # "perRequest"
        THEN {("auth" :> O([username |-> S("bob"), password |-> S("hunter2")]))}
        ELSE {})

ExtraOne(dep, op, base) == {extra @@ base : extra \in UndeclaredFields(dep, op)}

ParamsSamples(dep, op) ==
  LET shape == paramsShape(dep, op)
      bases == {MinimalParams(shape), FullParams(shape)}
  IN  ValidParams(shape)
      \cup UNION {MissingOne(shape, base) \cup WrongOne(shape, base)
                  \cup ExtraOne(dep, op, base) : base \in bases}

\* The arguments of a call: {method, params}.  A setRequestHandler request
\* always has the method it is routed by; a tool's arguments may lack it.
ArgsSamples(dep, op) ==
  LET shape == paramsShape(dep, op)
  IN  {O([method |-> S(MethodLiteral(op)), params |-> O(params)]) :
         params \in ParamsSamples(dep, op)}
      \cup {O([method |-> S(MethodLiteral(op))]),
            O([method |-> S(MethodLiteral(op)), params |-> S("x")]),
            O([method |-> S(MethodLiteral(op)), params |-> O(MinimalParams(shape)),
               id |-> N(1)])}
      \cup (IF dep = "perRequest" THEN {}
            ELSE {O([params |-> O(MinimalParams(shape))]),
                  O([method |-> S("bitbucket/other"), params |-> O(MinimalParams(shape))])})

\* Names no handler is registered under.
UnknownNames(dep) ==
  ({"bitbucket/deleteEverything"}
   \cup {MethodLiteral(op) : op \in {"getRepositories", "grantRepositoryAccess"}}
   \cup {"getRepositories", "grantRepositoryAccess"})
  \ RegisteredNames(dep)

DeclineParams ==
  [workspace |-> S("acme"), repoSlug |-> S("widgets"), pullRequestId |-> N(42)]

DispatchInputs(dep) ==
  UNION {{[name |-> RegisteredName(dep, op), args |-> args] :
            args \in ArgsSamples(dep, op)} : op \in RegisteredOperations(dep)}
  \cup {[name |-> name, args |-> O([method |-> S(name), params |-> O(params)])] :
          name \in UnknownNames(dep),
          params \in {<<>>, DeclineParams,
                      ("auth" :> O([username |-> S("alice"), password |-> S("s3cret")]))
                        @@ DeclineParams}}

(***************************************************************************)
(* The state: the variant deployed, the credentials createMCPServer was    *)
(* given (undefined in the perRequest variant, which takes none), and the  *)
(* dispatches in flight.  A dispatch is idle, awaiting its fetch, or done. *)
(* pullRequests is the remote's store of the pull requests created.        *)
(* tally is an observer's count: the request a caller repeats, how many    *)
(* times it was dispatched and how many POST calls were handed to fetch.   *)
(***************************************************************************)
NoResponse == [none |-> TRUE]
NoEnvelope == [none |-> TRUE]

NoTally == [input |-> [none |-> TRUE], dispatched |-> 0, posted |-> 0]

Idle ==
  [pc |-> "idle", name |-> "", args |-> Undefined, sent |-> <<>>,
   response |-> NoResponse, envelope |-> NoEnvelope]

Init ==
  /\ deployment \in Deployments
  /\ envAuth \in (IF deployment = "perRequest" THEN {Undefined} ELSE EnvCredentials)
  /\ dispatches = [d \in Slots |-> Idle]
  /\ pullRequests = <<>>
  /\ tally = NoTally

\* The dispatch of one call, up to the handler's await of fetch: the lookup
\* of the name, the validation of the arguments, the handler's client call.
\* The schema a handler is registered with decides which arguments reach it.
validate(schema, args) == Issues(schema, args, <<>>)

(* A variant that registers the handler with no schema to check. *)
validateNothing(schema, args) == {}

checkArguments(schema, args) == validate(schema, args)

\* request.params of the parsed request.
paramsOf(parsed) ==
  IF Is(Prop(parsed, "params"), "o") THEN Prop(parsed, "params").o ELSE <<>>

(* A variant that deduplicates: a request equal to one already answered is
   answered with that answer, and nothing is sent. *)
dispatchOnce(dep, env, name, args) ==
  LET earlier == {e \in DOMAIN dispatches :
                    /\ dispatches[e].pc = "done"
                    /\ dispatches[e].name = name /\ dispatches[e].args = args}
  IN
  IF earlier # {}
  THEN [Idle EXCEPT !.pc = "done", !.name = name, !.args = args,
                    !.envelope = dispatches[CHOOSE e \in earlier : TRUE].envelope]
  ELSE IF Handlers(dep, name) = {}
  THEN [Idle EXCEPT !.pc = "done", !.name = name, !.args = args,
                    !.envelope = UnknownMethod(name)]
  ELSE LET op == CHOOSE op \in Handlers(dep, name) : TRUE
           schema == inputSchema(dep, op)
           issues == checkArguments(schema, args)
       IN  IF issues # {}
           THEN [Idle EXCEPT !.pc = "done", !.name = name, !.args = args,
                             !.envelope = InvalidParams(issues)]
           ELSE LET step == handler(dep, env, op, paramsOf(Output(schema, args)))
                IN  IF "threw" \in DOMAIN step
                    THEN [Idle EXCEPT !.pc = "done", !.name = name, !.args = args,
                                      !.envelope = Thrown(step.threw)]
                    ELSE [Idle EXCEPT !.pc = "fetching", !.name = name, !.args = args,
                                      !.sent = <<step.call>>]

dispatch(dep, env, name, args) ==
  IF Handlers(dep, name) = {}
  THEN [Idle EXCEPT !.pc = "done", !.name = name, !.args = args,
                    !.envelope = UnknownMethod(name)]
  ELSE LET op == CHOOSE op \in Handlers(dep, name) : TRUE
           schema == inputSchema(dep, op)
           issues == checkArguments(schema, args)
       IN  IF issues # {}
           THEN [Idle EXCEPT !.pc = "done", !.name = name, !.args = args,
                             !.envelope = InvalidParams(issues)]
           ELSE LET step == handler(dep, env, op, paramsOf(Output(schema, args)))
                IN  IF "threw" \in DOMAIN step
                    THEN [Idle EXCEPT !.pc = "done", !.name = name, !.args = args,
                                      !.envelope = Thrown(step.threw)]
                    ELSE [Idle EXCEPT !.pc = "fetching", !.name = name, !.args = args,
                                      !.sent = <<step.call>>]

OperationOf(dep, name) == CHOOSE op \in RegisteredHandlers(dep, name) : TRUE

(* A variant in which the dispatch is given up when the response arrives:
   no envelope is produced. *)
resumeAborted(dep, dispatched, response) ==
  [pc |-> "idle", name |-> "", args |-> Undefined, sent |-> <<>>,
   response |-> [none |-> TRUE], envelope |-> [none |-> TRUE]]

(* A variant that answers with an empty result when the body of a success
   response does not decode. *)
resumeLenient(dep, dispatched, response) ==
  LET op == OperationOf(dep, dispatched.name)
      outcome == requestOutcome(response)
  IN  [dispatched EXCEPT
         !.pc = "done", !.response = response,
         !.envelope = IF "threw" \in DOMAIN outcome
                      THEN IF outcome.threw.name = "SyntaxError"
                           THEN Success([result |-> Undefined])
                           ELSE Thrown(outcome.threw)
                      ELSE Success(render(dep, op, outcome.value))]

\* The rest of the dispatch once fetch has resolved with a response.
resume(dep, dispatched, response) ==
  LET op == OperationOf(dep, dispatched.name)
      outcome == requestOutcome(response)
  IN  [dispatched EXCEPT
         !.pc = "done", !.response = response,
         !.envelope = IF "threw" \in DOMAIN outcome THEN Thrown(outcome.threw)
                      ELSE Success(render(dep, op, outcome.value))]

\* A caller's request arrives: any name, any arguments.
Dispatch(d) ==
  /\ dispatches[d].pc = "idle"
  /\ \E input \in DispatchInputs(deployment) :
       dispatches' = [dispatches EXCEPT
                        ![d] = dispatch(deployment, envAuth, input.name, input.args)]
  /\ UNCHANGED <<deployment, envAuth, pullRequests, tally>>

\* fetch resolves with one of the remote's responses for the operation.
FetchResolve(d) ==
  /\ dispatches[d].pc = "fetching"
  /\ \E response \in RemoteResponses(OperationOf(deployment, dispatches[d].name),
                                      dispatches[d].sent[1]) :
       dispatches' = [dispatches EXCEPT ![d] = resume(deployment, dispatches[d], response)]
  /\ UNCHANGED <<deployment, envAuth, pullRequests, tally>>

(* A variant of request() that reports a lost connection as an API error. *)
RejectionAsApiError ==
  [name |-> "Error",
   message |-> ApiErrorMessage(Response(502, "Bad Gateway", [raw |-> "<html>Bad Gateway</html>"]))]

\* What await fetch(url, init) throws when no response is obtained: the
\* TypeError of a network error, which request() does not catch.
fetchRejection == [name |-> "TypeError", message |-> <<"fetch failed">>]

\* fetch rejects: no response at all.
FetchReject(d) ==
  /\ dispatches[d].pc = "fetching"
  /\ dispatches' = [dispatches EXCEPT
       ![d] = [dispatches[d] EXCEPT
                 !.pc = "done", !.envelope = Thrown(fetchRejection)]]
  /\ UNCHANGED <<deployment, envAuth, pullRequests, tally>>

\* The envelope has been handed to the caller.
Deliver(d) ==
  /\ dispatches[d].pc = "done"
  /\ dispatches' = [dispatches EXCEPT ![d] = Idle]
  /\ UNCHANGED <<deployment, envAuth, pullRequests, tally>>

\* A caller that awaits each answer before its next call.
Next ==
  \/ Dispatch(1)
  \/ FetchResolve(1)
  \/ FetchReject(1)
  \/ Deliver(1)

Spec == Init /\ [][Next]_vars

(***************************************************************************)
(* Callers that do not wait: every slot takes requests on its own, so      *)
(* several dispatches are in flight and their fetches complete in any      *)
(* order.  Two callers, each with its own credentials, repository and pull *)
(* request, create and decline pull requests.                              *)
(***************************************************************************)
Callers ==
  {[auth |-> O([username |-> S("alice"), password |-> S("s3cret")]),
    workspace |-> S("acme"), repoSlug |-> S("widgets"), pullRequestId |-> N(42),
    title |-> S("Add gears")],
   [auth |-> O([username |-> S("bob"), password |-> S("hunter2")]),
    workspace |-> S("globex"), repoSlug |-> S("gadgets"), pullRequestId |-> N(7),
    title |-> S("Fix sprockets")]}

CallerParams(dep, op, caller) ==
  (IF dep = "perRequest" THEN ("auth" :> caller.auth) ELSE <<>>)
  @@ [workspace |-> caller.workspace, repoSlug |-> caller.repoSlug]
  @@ (IF op = "createPullRequest"
      THEN [title |-> caller.title,
            source |-> O([branch |-> O([name |-> S("feature")])]),
            destination |-> O([branch |-> O([name |-> S("main")])])]
      ELSE [pullRequestId |-> caller.pullRequestId])

ConcurrentInputs(dep) ==
  {[name |-> RegisteredName(dep, op),
    args |-> O([method |-> S(MethodLiteral(op)),
                params |-> O(CallerParams(dep, op, caller))])] :
     op \in {"createPullRequest", "declinePullRequest"}, caller \in Callers}

DispatchConcurrently(d) ==
  /\ dispatches[d].pc = "idle"
  /\ \E input \in ConcurrentInputs(deployment) :
       dispatches' = [dispatches EXCEPT
                        ![d] = dispatch(deployment, envAuth, input.name, input.args)]
  /\ UNCHANGED <<deployment, envAuth, pullRequests, tally>>

NextConcurrent ==
  \E d \in Slots :
    \/ DispatchConcurrently(d)
    \/ FetchResolve(d)
    \/ FetchReject(d)
    \/ Deliver(d)

SpecConcurrent == Init /\ [][NextConcurrent]_vars

\* Every HTTP call issued eventually returns a response or fails, and the
\* event loop then runs the continuation of the await.
FetchSettles(d) == FetchResolve(d) \/ FetchReject(d)

\* The callers take turns over the slots, and each declines its pull
\* request again and again.
DecliningInputs(dep, d) ==
  {input \in ConcurrentInputs(dep) :
     /\ input.name = RegisteredName(dep, "declinePullRequest")
     /\ paramsOf(input.args)["workspace"] = S(IF d % 2 = 1 THEN "acme" ELSE "globex")}

DispatchDecline(d) ==
  /\ dispatches[d].pc = "idle"
  /\ \E input \in DecliningInputs(deployment, d) :
       dispatches' = [dispatches EXCEPT
                        ![d] = dispatch(deployment, envAuth, input.name, input.args)]
  /\ UNCHANGED <<deployment, envAuth, pullRequests, tally>>

NextSettling ==
  \E d \in Slots :
    \/ DispatchDecline(d)
    \/ FetchResolve(d)
    \/ FetchReject(d)
    \/ Deliver(d)

SpecSettling ==
  Init /\ [][NextSettling]_vars /\ \A d \in Slots : WF_vars(FetchSettles(d))

(***************************************************************************)
(* A caller that repeats itself: the first request is a create, a merge or *)
(* a decline, and every later request is that request again, on any slot,  *)
(* while earlier ones are in flight or after they were answered.  Every    *)
(* dispatch and every POST call it hands to fetch is counted.              *)
(***************************************************************************)
MaxRepeats == 3

RepeatableInputs(dep) ==
  {[name |-> RegisteredName(dep, op),
    args |-> O([method |-> S(MethodLiteral(op)),
                params |-> O(CallerParams(dep, op, caller))])] :
     op \in {"createPullRequest", "mergePullRequest", "declinePullRequest"},
     caller \in {caller \in Callers : caller.workspace = S("acme")}}

Posts(sent) == Cardinality({i \in DOMAIN sent : HttpVerb(sent[i]) = "POST"})

DispatchAgain(d) ==
  /\ dispatches[d].pc = "idle"
  /\ tally.dispatched < MaxRepeats
  /\ \E input \in RepeatableInputs(deployment) :
       /\ tally.dispatched > 0 => input = tally.input
       /\ LET dispatched == dispatch(deployment, envAuth, input.name, input.args)
          IN  /\ dispatches' = [dispatches EXCEPT ![d] = dispatched]
              /\ tally' = [input |-> input,
                           dispatched |-> tally.dispatched + 1,
                           posted |-> tally.posted + Posts(dispatched.sent)]
  /\ UNCHANGED <<deployment, envAuth, pullRequests>>

NextRepeating ==
  \E d \in Slots :
    \/ DispatchAgain(d)
    \/ FetchResolve(d)
    \/ FetchReject(d)
    \/ Deliver(d)

SpecRepeating == Init /\ [][NextRepeating]_vars

(***************************************************************************)
(* Properties.                                                             *)
(***************************************************************************)
Active == {d \in Slots : dispatches[d].pc # "idle"}

IsRegistered(d) == dispatches[d].name \in RegisteredNames(deployment)
OpOfDispatch(d) == OperationOf(deployment, dispatches[d].name)
ShapeOfDispatch(d) == paramsShape(deployment, OpOfDispatch(d))
HasParamsObject(d) == Is(Prop(dispatches[d].args, "params"), "o")
RawParams(d) == paramsOf(dispatches[d].args)

Rejected(d, kind) ==
  /\ dispatches[d].pc = "done"
  /\ dispatches[d].sent = <<>>
  /\ ~dispatches[d].envelope.ok
  /\ dispatches[d].envelope.error.kind = kind

\* The type a schema asks of a value.
RECURSIVE ExpectedTag(_)
ExpectedTag(schema) ==
  CASE schema.k = "optional" -> ExpectedTag(schema.inner)
    [] schema.k = "number" -> "n"
    [] schema.k = "boolean" -> "b"
    [] schema.k = "object" -> "o"
    [] schema.k = "array" -> "a"
    [] OTHER -> "s"

LacksRequired(d, key) ==
  /\ IsRegistered(d) /\ HasParamsObject(d)
  /\ key \in RequiredKeys(ShapeOfDispatch(d))
  /\ key \notin DOMAIN RawParams(d)

HasWrongType(d, key) ==
  /\ IsRegistered(d) /\ HasParamsObject(d)
  /\ key \in DOMAIN ShapeOfDispatch(d) \cap DOMAIN RawParams(d)
  /\ ~Is(RawParams(d)[key], ExpectedTag(ShapeOfDispatch(d)[key]))

RejectedNaming(d, key) ==
  /\ Rejected(d, "InvalidParams")
  /\ <<"params", key>> \in dispatches[d].envelope.error.issues

ParamKeys ==
  UNION {DOMAIN paramsShape(dep, op) : dep \in Deployments, op \in RegisteredOperations("yaml")}

\* C1: for every registered method, a payload that lacks a required field or
\* gives a field the wrong type is answered InvalidParams naming that field,
\* and the dispatch issues no outbound request (validation precedes the
\* client call).
C1_ValidationPrecedesClientCall ==
  \A d \in Active : \A key \in ParamKeys :
    (LacksRequired(d, key) \/ HasWrongType(d, key)) => RejectedNaming(d, key)

C1_Witness ==
  \E d \in Active :
    /\ LacksRequired(d, "repoSlug") /\ RejectedNaming(d, "repoSlug")
    /\ OpOfDispatch(d) = "createPullRequest"

\* The fields of the payload the operation's schema does not declare, and
\* the same arguments without them.
Undeclared(d) ==
  IF IsRegistered(d) THEN DOMAIN RawParams(d) \ DOMAIN ShapeOfDispatch(d) ELSE {}

StrippedArgs(d) ==
  O([dispatches[d].args.o EXCEPT !["params"] = O(Without(RawParams(d), Undeclared(d)))])

HasExtraField(d) ==
  /\ IsRegistered(d) /\ HasParamsObject(d)
  /\ Undeclared(d) # {}
  /\ Issues(inputSchema(deployment, OpOfDispatch(d)), StrippedArgs(d), <<>>) = {}

\* C2, as the spec states it: a payload with every required field and one
\* field the schema does not declare is answered InvalidParams, and no
\* outbound request is issued.
C2_ExtraFieldRejected ==
  \A d \in Active : HasExtraField(d) => Rejected(d, "InvalidParams")

BodyKeys(call) ==
  IF HasBody(call)
  THEN {leaf[1][1] : leaf \in {l \in call.init.body.json : l[1] # <<>>}}
  ELSE {}

\* C2, amended: such a payload is accepted; validation drops the undeclared
\* field without an issue and the dispatch proceeds exactly as for the same
\* payload without the field, which reaches no outbound request.
C2_ExtraFieldDropped ==
  \A d \in Active :
    HasExtraField(d) =>
      LET plain == dispatch(deployment, envAuth, dispatches[d].name, StrippedArgs(d))
      IN  /\ dispatches[d].sent = plain.sent
          /\ plain.pc = "done" => dispatches[d].envelope = plain.envelope
          /\ plain.pc = "fetching" => ~Rejected(d, "InvalidParams")
          /\ \A i \in DOMAIN dispatches[d].sent :
               BodyKeys(dispatches[d].sent[i]) \cap Undeclared(d) = {}

C2_Witness ==
  \E d \in Active :
    /\ HasExtraField(d) /\ "unexpected" \in Undeclared(d)
    /\ OpOfDispatch(d) = "createPullRequest"
    /\ dispatches[d].pc = "fetching"
    /\ BodyKeys(dispatches[d].sent[1]) # {}

\* C3: a dispatch whose name is not in the catalog is answered UnknownMethod
\* and issues no outbound request, whatever its parameters.
C3_UnknownMethodNoRequest ==
  \A d \in Active :
    dispatches[d].name \notin RegisteredNames(deployment) => Rejected(d, "UnknownMethod")

C3_Witness ==
  \E d \in Active :
    /\ dispatches[d].name = "bitbucket/deleteEverything"
    /\ "workspace" \in DOMAIN RawParams(d)
    /\ Rejected(d, "UnknownMethod")

PassedValidation(d) ==
  /\ IsRegistered(d)
  /\ Issues(inputSchema(deployment, OpOfDispatch(d)), dispatches[d].args, <<>>) = {}

ValidatedParams(d) ==
  paramsOf(Output(inputSchema(deployment, OpOfDispatch(d)), dispatches[d].args))

\* C4, as the spec states it: every dispatch that passes validation issues
\* exactly one outbound request, whatever the remote answers, and never
\* issues it again.
C4_ExactlyOneRequest ==
  \A d \in Active : PassedValidation(d) => Len(dispatches[d].sent) = 1

Answered(d) ==
  /\ dispatches[d].pc = "done"
  /\ "status" \in DOMAIN dispatches[d].response

AnsweredWithSuccess(d) ==
  /\ Answered(d)
  /\ dispatches[d].response.status \in 200..299
  /\ Decodable(dispatches[d].response.body)

\* The fields and values an envelope's content holds, whichever way the
\* handler rendered them.
ContentLeaves(returned) ==
  IF "result" \in DOMAIN returned
  THEN Leaves(returned.result, <<>>)
  ELSE LET text == returned.content[1].text
       IN  IF "yaml" \in DOMAIN text THEN text.yaml ELSE text.json

\* C5, as the spec states it: when the payload is valid and the remote
\* answers with a success status, the content of the success envelope is the
\* decoded result with every field preserved.
C5_ResultPassedThrough ==
  \A d \in Active :
    AnsweredWithSuccess(d) =>
      /\ dispatches[d].envelope.ok
      /\ ContentLeaves(dispatches[d].envelope.returned)
           = Leaves(JSON_parse(dispatches[d].response.body), <<>>)

\* RFC 4648 encodings of the credentials the callers use.
KnownBase64(text) ==
  CASE text = "alice:s3cret" -> "YWxpY2U6czNjcmV0"
    [] text = "carol:p.ss" -> "Y2Fyb2w6cC5zcw=="
    [] text = "bob:hunter2" -> "Ym9iOmh1bnRlcjI="
    [] OTHER -> "?"

CredentialsInForce(d) ==
  IF deployment = "perRequest" THEN RawParams(d)["auth"] ELSE envAuth

\* C6: every outbound request carries an Authorization header equal to
\* "Basic " followed by the base64 encoding of identity:secret of the
\* credentials in force for its dispatch.
C6_EveryRequestAuthorized ==
  \A d \in Active : \A i \in DOMAIN dispatches[d].sent :
    LET headers == dispatches[d].sent[i].init.headers
        auth == CredentialsInForce(d).o
    IN  /\ "Authorization" \in DOMAIN headers
        /\ headers["Authorization"]
             = "Basic " \o KnownBase64(auth.username.s \o ":" \o auth.password.s)

C6_Witness ==
  \E d \in Active :
    /\ deployment = "perRequest"
    /\ dispatches[d].pc = "fetching"
    /\ dispatches[d].sent[1].init.headers["Authorization"] = "Basic Ym9iOmh1bnRlcjI="

Contains(str, sub) ==
  \E i \in 1..(Len(str) - Len(sub) + 1) : SubSeq(str, i, i + Len(sub) - 1) = sub

BeforeQuery(url) ==
  IF Contains(url, "?") THEN SubSeq(url, 1, IndexOf(url, "?") - 1) ELSE url

HasQueryKey(url, key) ==
  Contains(url, "?" \o key \o "=") \/ Contains(url, "&" \o key \o "=")

Supplied(d, key) ==
  key \in DOMAIN RawParams(d) /\ RawParams(d)[key] # Undefined

ListOperations == {"getRepositories", "getPipelines", "getPullRequests"}
QueryKeys == {"role", "state", "sort", "page", "pagelen"}

\* C7: in the list operations the outbound query string contains a key only
\* if the caller supplied that field with a defined value, and there is no
\* query string at all when the caller supplied no optional field.
C7_OnlySuppliedKeys ==
  \A d \in Active : \A i \in DOMAIN dispatches[d].sent :
    OpOfDispatch(d) \in ListOperations =>
      LET url == dispatches[d].sent[i].url
      IN  /\ \A key \in QueryKeys : HasQueryKey(url, key) => Supplied(d, key)
          /\ (\A key \in QueryKeys : ~Supplied(d, key)) => ~Contains(url, "?")

C7_Witness ==
  \E d \in Active :
    /\ OpOfDispatch(d) = "getPullRequests"
    /\ dispatches[d].pc = "fetching"
    /\ Supplied(d, "state") /\ ~Supplied(d, "page")
    /\ HasQueryKey(dispatches[d].sent[1].url, "state")
    /\ ~HasQueryKey(dispatches[d].sent[1].url, "page")

\* The fixed table of the spec: the verb and the path template of each
\* operation, filled with the validated parameters.
TableVerb(op) ==
  CASE op \in {"createPullRequest", "mergePullRequest", "declinePullRequest"} -> "POST"
    [] op = "updatePullRequest" -> "PUT"
    [] OTHER -> "GET"

PathText(val) == IF Is(val, "n") THEN ToString(val.n) ELSE val.s

TablePath(op, params) ==
  LET repo == "/repositories/" \o PathText(params["workspace"]) \o "/"
                \o PathText(params["repoSlug"])
      pipeline == repo \o "/pipelines/" \o PathText(params["pipelineUuid"])
      pullRequest == repo \o "/pullrequests/" \o PathText(params["pullRequestId"])
  IN  CASE op = "getRepositories" ->
             IF "workspace" \in DOMAIN params /\ params["workspace"] # Undefined
             THEN "/repositories/" \o PathText(params["workspace"])
             ELSE "/repositories"
        [] op = "getRepository" -> repo
        [] op = "getPipelines" -> repo \o "/pipelines"
        [] op = "getPipeline" -> pipeline
        [] op = "getPipelineSteps" -> pipeline \o "/steps"
        [] op = "getPullRequests" -> repo \o "/pullrequests"
        [] op = "createPullRequest" -> repo \o "/pullrequests"
        [] op = "getPullRequest" -> pullRequest
        [] op = "updatePullRequest" -> pullRequest
        [] op = "mergePullRequest" -> pullRequest \o "/merge"
        [] op = "declinePullRequest" -> pullRequest \o "/decline"

\* C8, as the spec states it: each of the eleven operations issues its
\* request with the verb and the path of the fixed table, the path components
\* taken from the validated parameters of the same dispatch.
C8_VerbAndPathOfTable ==
  \A d \in Active : \A i \in DOMAIN dispatches[d].sent :
    LET op == OpOfDispatch(d)
        call == dispatches[d].sent[i]
    IN  /\ HttpVerb(call) = TableVerb(op)
        /\ BeforeQuery(call.url)
             = "https://api.bitbucket.org/2.0" \o TablePath(op, ValidatedParams(d))

\* C9, as the spec states it: list repositories goes to
\* /repositories/{workspace} when the caller supplies a workspace and to
\* /repositories when not; the supplied workspace is never ignored.
C9_WorkspaceNeverIgnored ==
  \A d \in Active : \A i \in DOMAIN dispatches[d].sent :
    OpOfDispatch(d) = "getRepositories" =>
      BeforeQuery(dispatches[d].sent[i].url)
        = IF Supplied(d, "workspace")
          THEN "https://api.bitbucket.org/2.0/repositories/" \o RawParams(d)["workspace"].s
          ELSE "https://api.bitbucket.org/2.0/repositories"

AnsweredWithFailure(d) ==
  /\ Answered(d)
  /\ dispatches[d].response.status \notin 200..299

\* C10, as the spec states it: on a non-success status the dispatch fails
\* with an error that carries the status code, the status text and the
\* decoded error body as separate retrievable parts.
C10_ErrorCarriesSeparateParts ==
  \A d \in Active :
    AnsweredWithFailure(d) =>
      /\ ~dispatches[d].envelope.ok
      /\ {"status", "statusText", "body"} \subseteq DOMAIN dispatches[d].envelope.error
      /\ dispatches[d].envelope.error.status = dispatches[d].response.status
      /\ dispatches[d].envelope.error.statusText = dispatches[d].response.statusText
      /\ Decodable(dispatches[d].response.body) =>
           dispatches[d].envelope.error.body = JSON_parse(dispatches[d].response.body)

\* The texts of the statuses the remote answers with.
StatusLine(response) ==
  CASE response.status = 404 -> "404 Not Found"
    [] response.status = 502 -> "502 Bad Gateway"
    [] OTHER -> "?"

\* C10, amended: on a non-success status the dispatch fails, returns no
\* result, and its error is a generic Error whose only part besides its kind
\* is one message text: "Bitbucket API error: ", the status code, the status
\* text and the JSON text of the decoded error body, in that order.
C10_ErrorMessageHoldsParts ==
  \A d \in Active :
    AnsweredWithFailure(d) =>
      LET envelope == dispatches[d].envelope
          response == dispatches[d].response
      IN  /\ ~envelope.ok
          /\ DOMAIN envelope = {"ok", "error"}
          /\ DOMAIN envelope.error = {"kind", "message"}
          /\ envelope.error.kind = "Error"
          /\ Len(envelope.error.message) = 2
          /\ envelope.error.message[1]
               = "Bitbucket API error: " \o StatusLine(response) \o ", "
          /\ Decodable(response.body) =>
               envelope.error.message[2] = [json |-> Leaves(JSON_parse(response.body), <<>>)]

C10_Witness ==
  \E d \in Active :
    /\ AnsweredWithFailure(d)
    /\ dispatches[d].response.status = 404
    /\ Decodable(dispatches[d].response.body)
    /\ dispatches[d].envelope.error.message[1] = "Bitbucket API error: 404 Not Found, "

NoResponseObtained(d) ==
  /\ dispatches[d].pc = "done"
  /\ dispatches[d].sent # <<>>
  /\ ~Answered(d)

\* C11: a dispatch whose HTTP call yields no response fails, and its error
\* differs in kind and in message from the error of every non-success
\* response the remote could have given (and its envelope from every
\* envelope a response produces): the two are never conflated.
C11_TransportErrorDistinct ==
  \A d \in Active :
    NoResponseObtained(d) =>
      /\ ~dispatches[d].envelope.ok
      /\ \A response \in ResponsesFor(OpOfDispatch(d)) :
           LET other == resume(deployment, dispatches[d], response).envelope
           IN  /\ other # dispatches[d].envelope
               /\ response.status \notin 200..299 =>
                    /\ other.error.kind # dispatches[d].envelope.error.kind
                    /\ other.error.message # dispatches[d].envelope.error.message

C11_Witness ==
  \E d \in Active :
    /\ NoResponseObtained(d)
    /\ OpOfDispatch(d) = "mergePullRequest"
    /\ dispatches[d].envelope.error.kind = "TypeError"

\* The four error kinds of the spec, as the code's errors show them.
IsUnknownMethod(d) == dispatches[d].envelope.error.kind = "UnknownMethod"
IsInvalidParams(d) == dispatches[d].envelope.error.kind = "InvalidParams"
IsRemoteApiError(d) ==
  AnsweredWithFailure(d) /\ dispatches[d].envelope.error.kind = "Error"
IsTransportError(d) ==
  NoResponseObtained(d) /\ dispatches[d].envelope.error.kind = "TypeError"

FullySucceeded(d) ==
  /\ dispatches[d].envelope.ok
  /\ DOMAIN dispatches[d].envelope = {"ok", "returned"}
  /\ AnsweredWithSuccess(d)
  /\ ContentLeaves(dispatches[d].envelope.returned)
       = Leaves(JSON_parse(dispatches[d].response.body), <<>>)

FullyFailed(d) ==
  /\ ~dispatches[d].envelope.ok
  /\ DOMAIN dispatches[d].envelope = {"ok", "error"}
  /\ IsUnknownMethod(d) \/ IsInvalidParams(d) \/ IsRemoteApiError(d) \/ IsTransportError(d)

\* C12, as the spec states it: every dispatch ends either in a success
\* envelope holding the decoded result or in a failure envelope holding one
\* of the four error kinds (UnknownMethod, InvalidParams, RemoteApiError,
\* TransportError), never in both and never in a partial result.
C12_SuccessOrOneErrorKind ==
  \A d \in Active :
    dispatches[d].pc = "done" => (FullySucceeded(d) \/ FullyFailed(d))

\* C13, as the spec states it: in the catalog built at startup the
\* registered names are pairwise distinct, and the advertised method names
\* and the registered names are the same set.
C13_AdvertisedAreRegistered ==
  LET order == Registrations(deployment)
  IN  /\ \A i, j \in DOMAIN order :
           i # j => RegisteredName(deployment, order[i]) # RegisteredName(deployment, order[j])
      /\ AdvertisedMethods(deployment) = RegisteredNames(deployment)

\* The eleven operations of the spec's table.
TableOperations ==
  {"getRepositories", "getRepository", "getPipelines", "getPipeline",
   "getPipelineSteps", "getPullRequests", "getPullRequest", "createPullRequest",
   "updatePullRequest", "mergePullRequest", "declinePullRequest"}

\* C14, as the spec states it: the callable surface is exactly the eleven
\* operations of the table, every registered name is bound to exactly one
\* handler, and every handler calls a method the client provides, so that no
\* validated dispatch ends without reaching a client call.
C14_SurfaceIsTheTable ==
  /\ RegisteredOperations(deployment) = TableOperations
  /\ \A name \in RegisteredNames(deployment) :
       Cardinality(Handlers(deployment, name)) = 1
  /\ RegisteredOperations(deployment) \subseteq ClientOperations
  /\ \A d \in Active :
       PassedValidation(d) =>
         \/ dispatches[d].sent # <<>>
         \/ dispatches[d].envelope.error.kind # "TypeError"

IsDecline(d) ==
  /\ IsRegistered(d) /\ OpOfDispatch(d) = "declinePullRequest"
  /\ PassedValidation(d)

\* C15: declining pull request id in workspace/repoSlug issues one POST to
\* /repositories/{workspace}/{repoSlug}/pullrequests/{id}/decline with no
\* body, and on a success status the output is the pull request the remote
\* returned, state DECLINED included.
C15_DeclinePostsWithoutBody ==
  \A d \in Active :
    IsDecline(d) =>
      LET params == RawParams(d)
          returned == dispatches[d].envelope.returned
      IN  /\ Len(dispatches[d].sent) = 1
          /\ HttpVerb(dispatches[d].sent[1]) = "POST"
          /\ ~HasBody(dispatches[d].sent[1])
          /\ dispatches[d].sent[1].url
               = "https://api.bitbucket.org/2.0/repositories/" \o params["workspace"].s
                   \o "/" \o params["repoSlug"].s \o "/pullrequests/"
                   \o ToString(params["pullRequestId"].n) \o "/decline"
          /\ AnsweredWithSuccess(d) =>
               /\ dispatches[d].envelope.ok
               /\ ContentLeaves(returned)
                    = Leaves(JSON_parse(dispatches[d].response.body), <<>>)
               /\ <<<<"state">>, S("DECLINED")>> \in ContentLeaves(returned)

C15_Witness ==
  \E d \in Active :
    /\ IsDecline(d) /\ AnsweredWithSuccess(d)
    /\ dispatches[d].sent[1].url
         = "https://api.bitbucket.org/2.0/repositories/acme/widgets/pullrequests/42/decline"
    /\ <<<<"state">>, S("DECLINED")>> \in ContentLeaves(dispatches[d].envelope.returned)

\* The identity and the secret a dispatch runs with, and their encoding.
CredentialTexts(auth) ==
  IF Is(auth, "o") /\ Is(Get(auth.o, "username"), "s") /\ Is(Get(auth.o, "password"), "s")
  THEN {auth.o.username.s, auth.o.password.s,
        KnownBase64(auth.o.username.s \o ":" \o auth.o.password.s)}
  ELSE {}

Secrets(d) ==
  CredentialTexts(envAuth) \cup CredentialTexts(Get(RawParams(d), "auth"))

LeafStrings(leaves) ==
  {leaf[2].s : leaf \in {l \in leaves : "s" \in DOMAIN l[2]}}

LeafKeys(leaves) == UNION {Range(leaf[1]) : leaf \in leaves}

CallTexts(call) ==
  {call.url}
  \cup (IF HasBody(call)
        THEN LeafStrings(call.init.body.json) \cup LeafKeys(call.init.body.json)
        ELSE {})

\* The texts an envelope hands to the caller: the content of a success, the
\* message of a failure (its text and, in an API error, the error body).
EnvelopeTexts(envelope) ==
  IF envelope.ok
  THEN LeafStrings(ContentLeaves(envelope.returned))
  ELSE IF "message" \in DOMAIN envelope.error
       THEN {envelope.error.message[1]}
            \cup (IF Len(envelope.error.message) = 2
                  THEN LeafStrings(envelope.error.message[2].json)
                  ELSE {})
       ELSE IF "issues" \in DOMAIN envelope.error
            THEN UNION {Range(path) : path \in envelope.error.issues}
            ELSE {envelope.error.method}

Leaks(texts, secrets) ==
  \E text \in texts : \E secret \in secrets : Contains(text, secret)

\* C16: the identity and the secret leave only inside the Authorization
\* header: they appear neither in the URL (path and query) nor in the JSON
\* body of any outbound request, nor in the envelope returned to the caller,
\* also when they arrive inside the request parameters.
C16_CredentialsOnlyInHeader ==
  \A d \in Active :
    /\ \A i \in DOMAIN dispatches[d].sent :
         /\ ~Leaks(CallTexts(dispatches[d].sent[i]), Secrets(d))
         /\ "auth" \notin CallTexts(dispatches[d].sent[i])
         /\ DOMAIN dispatches[d].sent[i].init.headers = {"Authorization", "Content-Type"}
    /\ dispatches[d].pc = "done" =>
         ~Leaks(EnvelopeTexts(dispatches[d].envelope), Secrets(d))

C16_Witness ==
  \E d \in Active :
    /\ deployment = "perRequest"
    /\ IsRegistered(d) /\ OpOfDispatch(d) = "updatePullRequest"
    /\ AnsweredWithSuccess(d)
    /\ HasBody(dispatches[d].sent[1])
    /\ {"bob", "hunter2"} \subseteq Secrets(d)
    /\ dispatches[d].sent[1].init.headers["Authorization"] = "Basic Ym9iOmh1bnRlcjI="

\* What a dispatch sent and returned is made of its own parameters,
\* credentials and response.
OwnRequest(d, call) ==
  LET params == RawParams(d)
      auth == CredentialsInForce(d).o
  IN  /\ call.init.headers["Authorization"]
           = "Basic " \o KnownBase64(auth.username.s \o ":" \o auth.password.s)
      /\ Contains(call.url, "/repositories/" \o params["workspace"].s \o "/"
                              \o params["repoSlug"].s \o "/pullrequests")
      /\ "pullRequestId" \in DOMAIN params =>
           Contains(call.url, "/pullrequests/" \o ToString(params["pullRequestId"].n) \o "/")
      /\ HasBody(call) => <<<<"title">>, params["title"]>> \in call.init.body.json

OwnEnvelope(d) ==
  /\ AnsweredWithSuccess(d) =>
       /\ dispatches[d].envelope.ok
       /\ ContentLeaves(dispatches[d].envelope.returned)
            = Leaves(JSON_parse(dispatches[d].response.body), <<>>)
  /\ AnsweredWithFailure(d) =>
       /\ ~dispatches[d].envelope.ok
       /\ dispatches[d].envelope.error.message[1]
            = "Bitbucket API error: " \o StatusLine(dispatches[d].response) \o ", "

Independent ==
  \A d \in Active :
    /\ \A i \in DOMAIN dispatches[d].sent : OwnRequest(d, dispatches[d].sent[i])
    /\ OwnEnvelope(d)

\* A step of one dispatch leaves every other dispatch as it was, and a
\* dispatch in flight keeps its name, its arguments and its request.
Undisturbed ==
  \A d \in Slots :
    /\ \A e \in Slots \ {d} :
         dispatches'[e] # dispatches[e] => dispatches'[d] = dispatches[d]
    /\ dispatches[d].pc = "fetching" =>
         /\ dispatches'[d].name = dispatches[d].name
         /\ dispatches'[d].args = dispatches[d].args
         /\ dispatches'[d].sent = dispatches[d].sent

\* C17: with several dispatches in flight and their HTTP calls completing
\* in any order, each dispatch's request (path, body, credentials) and its
\* envelope are made of that dispatch's own parameters, credentials and
\* response, and no step of one dispatch changes another.
C17_DispatchesIndependent == []Independent /\ [][Undisturbed]_vars

C17_Witness ==
  /\ dispatches[1].pc = "fetching" /\ dispatches[2].pc = "done"
  /\ AnsweredWithSuccess(2)
  /\ dispatches[1].name = dispatches[2].name
  /\ RawParams(1)["workspace"] # RawParams(2)["workspace"]
  /\ dispatches[1].sent[1].init.headers["Authorization"]
       # dispatches[2].sent[1].init.headers["Authorization"]

HasEnvelope(d) ==
  /\ dispatches[d].pc = "done"
  /\ "ok" \in DOMAIN dispatches[d].envelope

\* A dispatch in flight stays in flight or ends with its envelope; a
\* finished dispatch keeps its one envelope until it is handed over.
RunsToCompletion ==
  \A d \in Slots :
    /\ dispatches[d].pc = "fetching" =>
         \/ dispatches'[d] = dispatches[d]
         \/ HasEnvelope(d)' /\ dispatches'[d].sent = dispatches[d].sent
    /\ dispatches[d].pc = "done" =>
         \/ dispatches'[d] = dispatches[d]
         \/ dispatches'[d].pc = "idle"

\* C18: once a dispatch has issued its HTTP call it is never aborted:
\* provided the call eventually returns a response or fails, the dispatch
\* eventually produces exactly one envelope, whatever other dispatches start
\* or finish in the meantime.
C18_IssuedCallEndsInOneEnvelope ==
  /\ [][RunsToCompletion]_vars
  /\ \A d \in Slots : (dispatches[d].pc = "fetching") ~> HasEnvelope(d)

C18_Witness ==
  /\ HasEnvelope(1) /\ dispatches[1].sent # <<>>
  /\ dispatches[2].pc = "fetching"

\* The number of items in the collection an envelope returns: the entries
\* of values, or of the list the getRepositories tool makes of them.
ItemIndexes(leaves) ==
  {leaf[1][2] : leaf \in {l \in leaves : Len(l[1]) >= 3 /\ l[1][1] = "values"}}
  \cup {leaf[1][1] : leaf \in {l \in leaves : Len(l[1]) >= 2 /\ l[1][1] # "values"}}

ItemsReturned(d) ==
  Cardinality(ItemIndexes(ContentLeaves(dispatches[d].envelope.returned)))

AskedPageSize(d) ==
  /\ IsRegistered(d) /\ OpOfDispatch(d) \in ListOperations
  /\ Supplied(d, "pagelen") /\ Is(RawParams(d)["pagelen"], "n")

\* C19, as the spec states it: a list operation called with pageSize = N
\* returns a collection of at most N items.
C19_AtMostPageSizeItems ==
  \A d \in Active :
    AskedPageSize(d) /\ AnsweredWithSuccess(d) =>
      ItemsReturned(d) <= RawParams(d)["pagelen"].n

(***************************************************************************)
(* A caller that creates pull requests and gets each by the id the create  *)
(* returned, against a remote that stores what it is sent: a POST to a     *)
(* pullrequests collection stores the submitted pull request under a new   *)
(* id, a GET of collection/id answers with the stored one.                 *)
(***************************************************************************)
RoundTripParams(dep) ==
  (IF dep = "perRequest"
   THEN ("auth" :> O([username |-> S("alice"), password |-> S("s3cret")])) ELSE <<>>)
  @@ [workspace |-> S("acme"), repoSlug |-> S("widgets")]

RoundTripArgs(dep, op, params) ==
  O([method |-> S(MethodLiteral(op)), params |-> O(RoundTripParams(dep) @@ params)])

LeafAt(leaves, path) == (CHOOSE leaf \in leaves : leaf[1] = path)[2]

ReturnedId(envelope) == LeafAt(ContentLeaves(envelope.returned), <<"id">>)

DispatchCreate ==
  /\ dispatches[1].pc = "idle"
  /\ \E submitted \in SubmittedPullRequests :
       dispatches' = [dispatches EXCEPT
         ![1] = dispatch(deployment, envAuth,
                         RegisteredName(deployment, "createPullRequest"),
                         RoundTripArgs(deployment, "createPullRequest", submitted.o))]
  /\ UNCHANGED <<deployment, envAuth, pullRequests, tally>>

DispatchGet ==
  /\ dispatches[2].pc = "idle"
  /\ dispatches[1].pc = "done" /\ dispatches[1].envelope.ok
  /\ dispatches' = [dispatches EXCEPT
       ![2] = dispatch(deployment, envAuth,
                       RegisteredName(deployment, "getPullRequest"),
                       RoundTripArgs(deployment, "getPullRequest",
                         [pullRequestId |-> ReturnedId(dispatches[1].envelope)]))]
  /\ UNCHANGED <<deployment, envAuth, pullRequests, tally>>

RemoteCreates(d) ==
  /\ dispatches[d].pc = "fetching"
  /\ Len(pullRequests) < MaxStored
  /\ LET call == dispatches[d].sent[1]
         id == Len(pullRequests) + 1
     IN  /\ HttpVerb(call) = "POST" /\ EndsWith(call.url, "/pullrequests")
         /\ HasBody(call) /\ Decodable(call.init.body)
         /\ LET doc == StoredPullRequest(id, JSON_parse(call.init.body))
            IN  /\ pullRequests' = Append(pullRequests,
                                          [collection |-> call.url, id |-> id, doc |-> doc])
                /\ dispatches' = [dispatches EXCEPT
                     ![d] = resume(deployment, dispatches[d],
                                   Response(201, "Created", JSON_stringify(doc)))]
  /\ UNCHANGED <<deployment, envAuth, tally>>

RemoteGets(d) ==
  /\ dispatches[d].pc = "fetching"
  /\ LET call == dispatches[d].sent[1]
         found == {i \in DOMAIN pullRequests :
                     call.url = pullRequests[i].collection \o "/"
                                  \o ToString(pullRequests[i].id)}
     IN  /\ HttpVerb(call) = "GET" /\ found # {}
         /\ dispatches' = [dispatches EXCEPT
              ![d] = resume(deployment, dispatches[d],
                            Response(200, "OK",
                              JSON_stringify(pullRequests[CHOOSE i \in found : TRUE].doc)))]
  /\ UNCHANGED <<deployment, envAuth, pullRequests, tally>>

NextRoundTrip ==
  \/ DispatchCreate
  \/ DispatchGet
  \/ RemoteCreates(1)
  \/ RemoteGets(2)
  \/ FetchReject(1)
  \/ FetchReject(2)
  \/ Deliver(1)
  \/ Deliver(2)

SpecRoundTrip == Init /\ [][NextRoundTrip]_vars

CreatedThenGot ==
  /\ AnsweredWithSuccess(1) /\ OpOfDispatch(1) = "createPullRequest"
  /\ AnsweredWithSuccess(2) /\ OpOfDispatch(2) = "getPullRequest"
  /\ dispatches[1].envelope.ok
  /\ RawParams(2)["pullRequestId"] = ReturnedId(dispatches[1].envelope)
  /\ RawParams(2)["workspace"] = RawParams(1)["workspace"]
  /\ RawParams(2)["repoSlug"] = RawParams(1)["repoSlug"]

\* C20: a successful create-pull-request dispatch followed by a
\* get-pull-request dispatch for the returned id, in the same workspace and
\* repoSlug, yields a pull request whose title, source.branch.name and
\* destination.branch.name are the values submitted to create.
C20_CreateThenGetRoundTrip ==
  CreatedThenGot =>
    /\ dispatches[2].envelope.ok
    /\ LET got == ContentLeaves(dispatches[2].envelope.returned)
           submitted == RawParams(1)
       IN  /\ <<<<"title">>, submitted["title"]>> \in got
           /\ <<<<"source", "branch", "name">>,
                submitted["source"].o.branch.o.name>> \in got
           /\ <<<<"destination", "branch", "name">>,
                submitted["destination"].o.branch.o.name>> \in got

C20_Witness ==
  /\ CreatedThenGot
  /\ Len(pullRequests) = 2
  /\ RawParams(1)["title"] = S("Fix sprockets")
  /\ <<<<"source", "branch", "name">>, S("feature")>>
       \in ContentLeaves(dispatches[2].envelope.returned)

\* The answer of a dispatch is made of the response to its own request.
AnswerOfOwnResponse(d) ==
  dispatches[d].pc = "done" =>
    /\ Len(dispatches[d].sent) = 1
    /\ Answered(d) =>
         dispatches[d].envelope
           = resume(deployment, dispatches[d], dispatches[d].response).envelope
    /\ ~Answered(d) => dispatches[d].envelope = Thrown(fetchRejection)

\* A dispatch begins by handing one POST call to fetch, and has no answer
\* before that call has settled.
BeginsWithItsOwnPost ==
  \A d \in Slots :
    (dispatches[d].pc = "idle" /\ dispatches'[d].pc # "idle") =>
      /\ dispatches'[d].pc = "fetching"
      /\ dispatches'[d].envelope = NoEnvelope
      /\ Len(dispatches'[d].sent) = 1
      /\ HttpVerb(dispatches'[d].sent[1]) = "POST"
      /\ tally'.posted = tally.posted + 1

NeverDeduplicated ==
  /\ tally.posted = tally.dispatched
  /\ \A d \in Slots : AnswerOfOwnResponse(d)

\* C21: the dispatcher never deduplicates: k valid dispatches of create,
\* merge or decline with identical parameters, one after the other or at
\* the same time, hand exactly k POST calls to fetch, and every dispatch is
\* answered from the response to its own call, never from an earlier answer.
C21_NeverDeduplicates == []NeverDeduplicated /\ [][BeginsWithItsOwnPost]_vars

C21_Witness ==
  /\ tally.dispatched = MaxRepeats /\ tally.posted = MaxRepeats
  /\ tally.input.name = RegisteredName(deployment, "createPullRequest")
  /\ dispatches[1].pc = "done" /\ dispatches[2].pc = "done"
  /\ dispatches[1].args = dispatches[2].args
  /\ dispatches[1].envelope.ok /\ ~dispatches[2].envelope.ok

\* The operations that send their payload, the fields of a payload that
\* name the resource, and the rest of the fields the caller supplied among
\* those the operation declares.
PayloadOperations == {"createPullRequest", "updatePullRequest", "mergePullRequest"}

PathComponents(op) ==
  IF op = "createPullRequest" THEN {"workspace", "repoSlug"}
  ELSE {"workspace", "repoSlug", "pullRequestId"}

SuppliedBodyFields(d) ==
  DOMAIN RawParams(d) \ (PathComponents(OpOfDispatch(d)) \cup {"auth"} \cup Undeclared(d))

SuppliedBody(d) ==
  Leaves(O([key \in SuppliedBodyFields(d) |-> RawParams(d)[key]]), <<>>)

SendsPayload(d) ==
  /\ PassedValidation(d)
  /\ OpOfDispatch(d) \in PayloadOperations

\* C22: for create, update and merge the JSON body sent is the validated
\* parameters without workspace, repoSlug, the pull-request id (update and
\* merge) and the credentials: every body field supplied, none that was not
\* supplied, and on create always title, source.branch.name and
\* destination.branch.name.
C22_BodyIsTheRestOfTheParams ==
  \A d \in Active :
    SendsPayload(d) =>
      /\ Len(dispatches[d].sent) = 1
      /\ HasBody(dispatches[d].sent[1])
      /\ dispatches[d].sent[1].init.body = [json |-> SuppliedBody(d)]
      /\ BodyKeys(dispatches[d].sent[1]) = SuppliedBodyFields(d)
      /\ OpOfDispatch(d) = "createPullRequest" =>
           {<<"title">>, <<"source", "branch", "name">>,
            <<"destination", "branch", "name">>}
             \subseteq {leaf[1] : leaf \in dispatches[d].sent[1].init.body.json}

C22_Witness ==
  \E d \in Active :
    /\ SendsPayload(d)
    /\ OpOfDispatch(d) = "updatePullRequest"
    /\ deployment = "perRequest"
    /\ "auth" \in DOMAIN RawParams(d)
    /\ Undeclared(d) # {}
    /\ BodyKeys(dispatches[d].sent[1])
         = {"title", "description", "reviewers", "close_source_branch"}

\* A call with a JSON text as its body and the header that declares it.
CarriesJsonBody(call) ==
  /\ HasBody(call)
  /\ "json" \in DOMAIN call.init.body
  /\ "Content-Type" \in DOMAIN call.init.headers
  /\ call.init.headers["Content-Type"] = "application/json"

\* C23: the outbound request carries a JSON body together with
\* Content-Type: application/json exactly for create, update and merge, the
\* non-GET operations with a payload; GET requests and the POST of decline
\* carry no body.
C23_JsonBodyExactlyForPayloads ==
  \A d \in Active : \A i \in DOMAIN dispatches[d].sent :
    LET call == dispatches[d].sent[i]
    IN  /\ CarriesJsonBody(call) <=> OpOfDispatch(d) \in PayloadOperations
        /\ HasBody(call) => CarriesJsonBody(call) /\ HttpVerb(call) \in {"POST", "PUT"}
        /\ HttpVerb(call) = "GET" => ~HasBody(call)
        /\ OpOfDispatch(d) = "declinePullRequest" =>
             HttpVerb(call) = "POST" /\ ~HasBody(call)

C23_Witness ==
  \E d \in Active :
    /\ OpOfDispatch(d) = "mergePullRequest"
    /\ dispatches[d].sent # <<>>
    /\ CarriesJsonBody(dispatches[d].sent[1])
    /\ <<<<"merge_strategy">>, S("squash")>> \in dispatches[d].sent[1].init.body.json

\* A non-success response whose body is not JSON text, and the error of a
\* non-success response whose body is.
FailureNotDecodable(d) ==
  /\ AnsweredWithFailure(d)
  /\ ~Decodable(dispatches[d].response.body)

DecodableFailures(d) ==
  {response \in ResponsesFor(OpOfDispatch(d)) :
     response.status \notin 200..299 /\ Decodable(response.body)}

FallbackText == [json |-> {<<<<"message">>, S("Unknown error")>>}]

\* C24: when the remote answers with a non-success status and a body that
\* cannot be decoded as JSON, the dispatch fails with the error kind of a
\* decodable error body; the error carries the status, the status text and
\* a generic fallback message in the error body's place, and the caller
\* never receives the decoding failure.
C24_UndecodableErrorBodyFallsBack ==
  \A d \in Active :
    FailureNotDecodable(d) =>
      LET error == dispatches[d].envelope.error
      IN  /\ ~dispatches[d].envelope.ok
          /\ \A response \in DecodableFailures(d) :
               error.kind = resume(deployment, dispatches[d], response).envelope.error.kind
          /\ error.kind # "SyntaxError"
          /\ error.message
               = <<"Bitbucket API error: " \o StatusLine(dispatches[d].response) \o ", ",
                   FallbackText>>

C24_Witness ==
  \E d \in Active :
    /\ FailureNotDecodable(d)
    /\ DecodableFailures(d) # {}
    /\ dispatches[d].response.status = 502
    /\ dispatches[d].envelope.error.kind = "Error"
    /\ dispatches[d].envelope.error.message[1] = "Bitbucket API error: 502 Bad Gateway, "

\* The sets the spec gives for the state of a pull-request listing and for
\* the merge strategy, and a dispatch that names a value for one of them.
ListedStates == {S("OPEN"), S("MERGED"), S("DECLINED"), S("SUPERSEDED")}
ListedStrategies == {S("merge_commit"), S("squash"), S("fast_forward")}

Names(d, op, key) ==
  /\ IsRegistered(d) /\ HasParamsObject(d)
  /\ OpOfDispatch(d) = op
  /\ key \in DOMAIN RawParams(d)

\* C25: a list-pull-requests payload whose state is not one of OPEN, MERGED,
\* DECLINED, SUPERSEDED and a merge payload whose merge strategy is not one
\* of merge_commit, squash, fast_forward are rejected with InvalidParams
\* before any outbound request; every value of those sets is accepted and
\* sent unchanged.
C25_EnumerationsEnforced ==
  \A d \in Active :
    /\ Names(d, "getPullRequests", "state") =>
         LET state == RawParams(d)["state"]
         IN  /\ state \notin ListedStates => RejectedNaming(d, "state")
             /\ state \in ListedStates =>
                  /\ ~RejectedNaming(d, "state")
                  /\ PassedValidation(d) =>
                       /\ Len(dispatches[d].sent) = 1
                       /\ Contains(dispatches[d].sent[1].url, "?state=" \o state.s)
    /\ Names(d, "mergePullRequest", "merge_strategy") =>
         LET strategy == RawParams(d)["merge_strategy"]
         IN  /\ strategy \notin ListedStrategies => RejectedNaming(d, "merge_strategy")
             /\ strategy \in ListedStrategies =>
                  /\ ~RejectedNaming(d, "merge_strategy")
                  /\ PassedValidation(d) =>
                       /\ Len(dispatches[d].sent) = 1
                       /\ <<<<"merge_strategy">>, strategy>>
                            \in dispatches[d].sent[1].init.body.json

C25_Witness ==
  \E d \in Active :
    /\ Names(d, "mergePullRequest", "merge_strategy")
    /\ RawParams(d)["merge_strategy"] = S("merge_commit")
    /\ PassedValidation(d)
    /\ <<<<"merge_strategy">>, S("merge_commit")>> \in dispatches[d].sent[1].init.body.json

\* The query keys in their order, the values JavaScript takes for false
\* among those a list payload can hold, and the query string of the supplied
\* values that are not among them.
QueryKeyOrder == <<"role", "state", "sort", "page", "pagelen">>

Falsy == {N(0), S("")}

QueryText(val) == IF Is(val, "n") THEN ToString(val.n) ELSE val.s

RECURSIVE JoinQuery(_, _)
JoinQuery(keys, params) ==
  IF keys = <<>> THEN ""
  ELSE keys[1] \o "=" \o QueryText(params[keys[1]])
       \o (IF Len(keys) > 1 THEN "&" ELSE "")
       \o JoinQuery(Tail(keys), params)

KeptKeys(d) ==
  SelectSeq(QueryKeyOrder,
            LAMBDA key : /\ key \in DOMAIN ShapeOfDispatch(d)
                         /\ Supplied(d, key)
                         /\ RawParams(d)[key] \notin Falsy)

FalsyKeys(d) ==
  {key \in Range(QueryKeyOrder) : Supplied(d, key) /\ RawParams(d)[key] \in Falsy}

WithoutFalsy(d) ==
  O([dispatches[d].args.o EXCEPT !["params"] = O(Without(RawParams(d), FalsyKeys(d)))])

Lists(d) ==
  /\ PassedValidation(d)
  /\ OpOfDispatch(d) \in ListOperations
  /\ dispatches[d].sent # <<>>

\* C26: in the list operations an optional field is written to the query
\* string only when its value is truthy: a supplied page or page size of 0
\* and a supplied empty sort string are left out exactly as if they had not
\* been supplied, and every supplied non-zero number and non-empty string
\* appears once, under the keys role, state, sort, page, pagelen in that
\* order.
C26_QueryHoldsTruthyFieldsInOrder ==
  \A d \in Active :
    Lists(d) =>
      LET url == dispatches[d].sent[1].url
      IN  /\ url = BeforeQuery(url)
                     \o (IF KeptKeys(d) = <<>> THEN ""
                         ELSE "?" \o JoinQuery(KeptKeys(d), RawParams(d)))
          /\ \A key \in FalsyKeys(d) : ~HasQueryKey(url, key)
          /\ dispatches[d].sent
               = dispatch(deployment, envAuth, dispatches[d].name, WithoutFalsy(d)).sent

C26_Witness ==
  \E d \in Active :
    /\ Lists(d)
    /\ OpOfDispatch(d) = "getPullRequests"
    /\ FalsyKeys(d) = {"sort", "page"}
    /\ EndsWith(dispatches[d].sent[1].url, "/pullrequests?state=MERGED&pagelen=10")

\* A success status with a body that is not JSON text.
SuccessNotDecodable(d) ==
  /\ Answered(d)
  /\ dispatches[d].response.status \in 200..299
  /\ ~Decodable(dispatches[d].response.body)

\* C27: when the remote answers with a success status and a body that
\* cannot be decoded as JSON, the call fails with the rejection of the
\* decoding and no success envelope is produced; a success envelope is
\* returned only when the status is in the success range and the body
\* decodes.
C27_SuccessNeedsDecodableBody ==
  \A d \in Active :
    /\ SuccessNotDecodable(d) =>
         /\ ~dispatches[d].envelope.ok
         /\ dispatches[d].envelope.error.kind = "SyntaxError"
    /\ (dispatches[d].pc = "done" /\ dispatches[d].envelope.ok) =>
         AnsweredWithSuccess(d)

C27_Witness ==
  \E d \in Active :
    /\ SuccessNotDecodable(d)
    /\ OpOfDispatch(d) = "getRepository"
    /\ dispatches[d].response.status = 200
    /\ dispatches[d].envelope = Thrown([name |-> "SyntaxError",
                                        message |-> <<"Unexpected end of JSON input">>])

====
